---------------------------- MODULE Spec2Model ----------------------------
(***************************************************************************)
(* Compatibility scoring, application ranking and adoption-outcome         *)
(* prediction of PawBondAI.                                                *)
(*                                                                         *)
(* An application document here has the nested groups the scorers read     *)
(* (pet_experience, housing_info, application_meta, applicant_info,        *)
(* household_info) with every field present; a field may hold None.        *)
(*                                                                         *)
(* Number representation.  Python floats are modelled as exact decimals:   *)
(*   - a raw Elasticsearch relevance score is an integer count of 1/10000; *)
(*   - a dimension score is an integer count of 1/1000 of a point          *)
(*     (ScoreScale units per point);                                       *)
(*   - a weight is an integer percentage, so a weighted sum counts         *)
(*     1/100000 of a point;                                                *)
(*   - a value rounded by round(x, 2) counts 1/100 of a point, one rounded *)
(*     by round(x, 4) counts 1/10000.                                      *)
(* Text fields of which the code reads only the truth value or the length  *)
(* are modelled by their length (0 for None or the empty string); text     *)
(* fields that the code searches for substrings are sequences of           *)
(* characters.                                                             *)
(***************************************************************************)
EXTENDS Integers, Sequences, FiniteSets, TLC

VARIABLES
    weights,        \* CompatibilityService.weights
    calc,           \* frame of one calculate_compatibility call
    rec,            \* frame of one _generate_recommendation call
    applications,   \* the "applications" index: id -> document
    dogs,           \* the "dogs" index: the set of ids that resolve
    rank,           \* frame of one rank_applications_for_dog call
    pred,           \* frame of one predict_adoption_outcome call
    calls,          \* the calculate_compatibility calls answered so far
    predictions_log \* the rows of the BigQuery table predictions_log

vars == <<weights, calc, rec, applications, dogs, rank, pred, calls,
          predictions_log>>

ScoreScale == 1000

None == "None"

Min(a, b) == IF a < b THEN a ELSE b
Max(a, b) == IF a > b THEN a ELSE b

\* round(x, nd) of x = n / unit to a multiple of 1/unit' where unit = unit' * by.
RoundDiv(n, by) ==
    LET q == n \div by
        r == n % by
    IN  IF 2 * r < by THEN q
        ELSE IF 2 * r > by THEN q + 1
        ELSE IF q % 2 = 0 THEN q ELSE q + 1

\* round(n / d, 4) counted in 1/10000, for n >= 0 and d > 0.
RoundRatio4(n, d) ==
    LET q == (10000 * n) \div d
        r == (10000 * n) % d
    IN  IF 2 * r < d THEN q
        ELSE IF 2 * r > d THEN q + 1
        ELSE IF q % 2 = 0 THEN q ELSE q + 1

(***************************************************************************)
(* Text                                                                    *)
(***************************************************************************)
UpperMap ==
    ("A" :> "a") @@ ("D" :> "d") @@ ("E" :> "e") @@ ("H" :> "h") @@
    ("I" :> "i") @@ ("N" :> "n") @@ ("P" :> "p") @@ ("Y" :> "y")

\* str.lower()
Lower(text) ==
    [i \in 1..Len(text) |->
        IF text[i] \in DOMAIN UpperMap THEN UpperMap[text[i]] ELSE text[i]]

\* word in text
Contains(text, word) ==
    \E i \in 1..(Len(text) - Len(word) + 1) :
        SubSeq(text, i, i + Len(word) - 1) = word

W_yes == <<"y", "e", "s">>
W_no == <<"n", "o">>
W_agree == <<"a", "g", "r", "e", "e">>
W_disagree == <<"d", "i", "s">> \o W_agree
W_active == <<"a", "c", "t", "i", "v", "e">>
W_energetic == <<"e", "n", "e", "r", "g", "e", "t", "i", "c">>
W_playful == <<"p", "l", "a", "y", "f", "u", "l">>
W_high_energy == <<"h", "i", "g", "h", " ", "e", "n", "e", "r", "g", "y">>

(***************************************************************************)
(* Dimension scorers                                                       *)
(***************************************************************************)
\* Clamp without its upper limit
ClampFromBelow(score) == Max(0, score)

Clamp(score) == Min(100, Max(0, score))

\* ScoreExperience that counts the history details without prior pets too
ScoreExperienceHistoryAlone(app) ==
    LET pe == app.pet_experience
        pets == (IF pe.has_current_or_past_pets THEN 20 ELSE 0)
                + (IF pe.pet_history_details > 0 THEN 10 ELSE 0)
        volunteer == IF pe.volunteer_experience_details > 0 THEN 15 ELSE 0
        surrender == IF pe.ever_surrendered_pet
                     THEN (IF pe.surrender_reason > 0 THEN -10 ELSE -20)
                     ELSE 0
        plan == IF pe.new_pet_introduction_plan > 200 THEN 15
                ELSE IF pe.new_pet_introduction_plan > 50 THEN 5
                ELSE 0
    IN  Clamp(50 + pets + volunteer + surrender + plan) * ScoreScale

ScoreExperience(app) ==
    LET pe == app.pet_experience
        pets == IF pe.has_current_or_past_pets
                THEN 20 + (IF pe.pet_history_details > 0 THEN 10 ELSE 0)
                ELSE 0
        volunteer == IF pe.volunteer_experience_details > 0 THEN 15 ELSE 0
        surrender == IF pe.ever_surrendered_pet
                     THEN (IF pe.surrender_reason > 0 THEN -10 ELSE -20)
                     ELSE 0
        plan == IF pe.new_pet_introduction_plan > 200 THEN 15
                ELSE IF pe.new_pet_introduction_plan > 50 THEN 5
                ELSE 0
    IN  Clamp(50 + pets + volunteer + surrender + plan) * ScoreScale

HighEnergy(dog) ==
    LET behavioral_text == Lower(dog.behavioral_notes)
    IN  \E word \in {W_active, W_energetic, W_playful, W_high_energy} :
            Contains(behavioral_text, word)

\* ScoreHousing with the apartment penalty from 35 kg on
ScoreHousingFrom35(app, dog) ==
    LET hi == app.housing_info
        space == IF dog.weight_kg # 0 /\ hi.size_sqm # 0
                 THEN IF dog.weight_kg > 30
                      THEN (IF hi.size_sqm >= 100 THEN 15
                            ELSE IF hi.size_sqm < 70 THEN -20 ELSE 0)
                      ELSE IF dog.weight_kg > 15
                      THEN (IF hi.size_sqm >= 70 THEN 10 ELSE 0)
                      ELSE 0
                 ELSE 0
        yard == IF HighEnergy(dog)
                THEN (IF hi.has_yard_or_balcony THEN 15 ELSE -15)
                ELSE 0
        landlord == IF hi.ownership_status \in {"Leased", "Rented"}
                    THEN IF hi.landlord_permission_granted = "Yes" THEN 10
                         ELSE IF hi.landlord_permission_granted = "No" THEN -40
                         ELSE -25
                    ELSE 0
        kind == IF hi.type \in {"Detached House", "Townhouse"} THEN 5
                ELSE IF hi.type = "Apartment" /\ dog.weight_kg # 0
                        /\ dog.weight_kg >= 35 THEN -10
                ELSE 0
    IN  Clamp(70 + space + yard + landlord + kind) * ScoreScale

ScoreHousing(app, dog) ==
    LET hi == app.housing_info
        space == IF dog.weight_kg # 0 /\ hi.size_sqm # 0
                 THEN IF dog.weight_kg > 30
                      THEN (IF hi.size_sqm >= 100 THEN 15
                            ELSE IF hi.size_sqm < 70 THEN -20 ELSE 0)
                      ELSE IF dog.weight_kg > 15
                      THEN (IF hi.size_sqm >= 70 THEN 10 ELSE 0)
                      ELSE 0
                 ELSE 0
        yard == IF HighEnergy(dog)
                THEN (IF hi.has_yard_or_balcony THEN 15 ELSE -15)
                ELSE 0
        landlord == IF hi.ownership_status \in {"Leased", "Rented"}
                    THEN IF hi.landlord_permission_granted = "Yes" THEN 10
                         ELSE IF hi.landlord_permission_granted = "No" THEN -40
                         ELSE -25
                    ELSE 0
        kind == IF hi.type \in {"Detached House", "Townhouse"} THEN 5
                ELSE IF hi.type = "Apartment" /\ dog.weight_kg # 0
                        /\ dog.weight_kg > 35 THEN -10
                ELSE 0
    IN  Clamp(70 + space + yard + landlord + kind) * ScoreScale

\* ScoreLifestyle with a base of 40
ScoreLifestyleFromBase40(app) ==
    LET kind == IF app.application_meta.type = "Adoption" THEN 20
                ELSE IF app.application_meta.type = "Foster" THEN 10
                ELSE 0
        donor == IF app.application_meta.is_kara_donor THEN 15 ELSE 0
        marital == IF app.applicant_info.marital_status \in {"Married", "Partnered"}
                   THEN 5 ELSE 0
    IN  Clamp(40 + kind + donor + marital) * ScoreScale

ScoreLifestyle(app) ==
    LET kind == IF app.application_meta.type = "Adoption" THEN 20
                ELSE IF app.application_meta.type = "Foster" THEN 10
                ELSE 0
        donor == IF app.application_meta.is_kara_donor THEN 15 ELSE 0
        marital == IF app.applicant_info.marital_status \in {"Married", "Partnered"}
                   THEN 5 ELSE 0
    IN  Clamp(70 + kind + donor + marital) * ScoreScale

ScoreHousehold(app) ==
    LET hh == app.household_info
        agreement_text == Lower(hh.all_members_agree)
        agree == IF Len(hh.all_members_agree) > 0
                 THEN IF Contains(agreement_text, W_yes)
                         \/ Contains(agreement_text, W_agree) THEN 20
                      ELSE IF Contains(agreement_text, W_no)
                              \/ Contains(agreement_text, W_disagree) THEN -40
                      ELSE 0
                 ELSE 0
        allergies == IF hh.has_allergies
                     THEN (IF hh.allergy_details > 0 THEN -10 ELSE -20)
                     ELSE 0
        size == IF hh.household_size # 0
                THEN IF hh.household_size = 1
                     THEN (IF app.applicant_info.emergency_contact_phone > 0
                           THEN 5 ELSE 0)
                     ELSE IF hh.household_size >= 2 THEN 10
                     ELSE 0
                ELSE 0
        members == IF hh.members_description > 100 THEN 10 ELSE 0
    IN  Clamp(70 + agree + allergies + size + members) * ScoreScale

\* ScoreMotivation that scores a failed or empty search as 0
ScoreMotivationZeroWithoutHit(es) ==
    IF es.kind = "hit"
    THEN Min(100 * ScoreScale, Max(0, (es.score * ScoreScale) \div 200))
    ELSE 0

\* The answer of the semantic search filtered on the application's id:
\* kind "error" (the call raises), "empty" (no hit) or "hit" with its _score.
ScoreMotivation(es) ==
    IF es.kind = "hit"
    THEN Min(100 * ScoreScale, Max(0, (es.score * ScoreScale) \div 200))
    ELSE 50 * ScoreScale


(***************************************************************************)
(* Recommendation and the compatibility result                             *)
(***************************************************************************)
CriticalConcern == "CRITICAL: No landlord permission"

\* "CRITICAL" in c, over the concern strings the function can append
IsCritical(c) == c = CriticalConcern

When(cond, concern) == IF cond THEN <<concern>> ELSE <<>>

\* Concerns whose experience threshold is not strict
ConcernsAtThreshold(dimension_scores, app) ==
    When(dimension_scores.experience <= 40 * ScoreScale,
         "Limited pet ownership experience")
    \o (IF dimension_scores.housing < 50 * ScoreScale
        THEN <<"Housing may not be suitable">>
             \o When(app.housing_info.ownership_status \in {"Leased", "Rented"}
                     /\ app.housing_info.landlord_permission_granted # "Yes",
                     CriticalConcern)
        ELSE <<>>)
    \o (IF dimension_scores.household < 50 * ScoreScale
        THEN <<"Household compatibility concerns">>
             \o When(app.household_info.has_allergies,
                     "Household member has allergies")
        ELSE <<>>)
    \o When(dimension_scores.lifestyle < 50 * ScoreScale,
            "Lifestyle may not align with pet needs")
    \o When(dimension_scores.motivation < 50 * ScoreScale,
            "Application essays don't strongly align with this dog's profile")
    \o When(app.pet_experience.ever_surrendered_pet
            /\ app.pet_experience.surrender_reason = 0,
            "Previous pet surrender without explanation")

Concerns(dimension_scores, app) ==
    When(dimension_scores.experience < 40 * ScoreScale,
         "Limited pet ownership experience")
    \o (IF dimension_scores.housing < 50 * ScoreScale
        THEN <<"Housing may not be suitable">>
             \o When(app.housing_info.ownership_status \in {"Leased", "Rented"}
                     /\ app.housing_info.landlord_permission_granted # "Yes",
                     CriticalConcern)
        ELSE <<>>)
    \o (IF dimension_scores.household < 50 * ScoreScale
        THEN <<"Household compatibility concerns">>
             \o When(app.household_info.has_allergies,
                     "Household member has allergies")
        ELSE <<>>)
    \o When(dimension_scores.lifestyle < 50 * ScoreScale,
            "Lifestyle may not align with pet needs")
    \o When(dimension_scores.motivation < 50 * ScoreScale,
            "Application essays don't strongly align with this dog's profile")
    \o When(app.pet_experience.ever_surrendered_pet
            /\ app.pet_experience.surrender_reason = 0,
            "Previous pet surrender without explanation")

\* Decide with approval only above 80
DecideAbove80(overall_score, concerns) ==
    LET critical_concerns == \E i \in 1..Len(concerns) : IsCritical(concerns[i])
    IN  IF critical_concerns \/ overall_score < 50 * 100 * ScoreScale THEN "reject"
        ELSE IF overall_score > 80 * 100 * ScoreScale /\ Len(concerns) <= 1
        THEN "approve"
        ELSE "review"

\* overall_score counts 1/(100 * ScoreScale) of a point
Decide(overall_score, concerns) ==
    LET critical_concerns == \E i \in 1..Len(concerns) : IsCritical(concerns[i])
    IN  IF critical_concerns \/ overall_score < 50 * 100 * ScoreScale THEN "reject"
        ELSE IF overall_score >= 80 * 100 * ScoreScale /\ Len(concerns) <= 1
        THEN "approve"
        ELSE "review"

GenerateRecommendation(overall_score, dimension_scores, app) ==
    LET concerns == Concerns(dimension_scores, app)
    IN  [recommendation |-> Decide(overall_score, concerns), concerns |-> concerns]

DimensionWeights ==
    [experience |-> 25, housing |-> 20, lifestyle |-> 15, household |-> 15,
     motivation |-> 25]

Dimensions == {"experience", "housing", "lifestyle", "household", "motivation"}

DimensionScores(app, dog, es) ==
    [experience |-> ScoreExperience(app),
     housing    |-> ScoreHousing(app, dog),
     lifestyle  |-> ScoreLifestyle(app),
     household  |-> ScoreHousehold(app),
     motivation |-> ScoreMotivation(es)]

\* OverallScore with the weights of housing and motivation exchanged
OverallScoreExchanged(scores, w) ==
    scores.experience * w.experience
    + scores.housing * w.motivation
    + scores.lifestyle * w.lifestyle
    + scores.household * w.household
    + scores.motivation * w.housing

OverallScore(scores, w) ==
    scores.experience * w.experience
    + scores.housing * w.housing
    + scores.lifestyle * w.lifestyle
    + scores.household * w.household
    + scores.motivation * w.motivation

\* round(overall_score, 2)
RoundOverall(overall_score) == RoundDiv(overall_score, ScoreScale)

\* round(dimension score, 2)
RoundScore(score) == RoundDiv(score, ScoreScale \div 100)

CompatibilityResult(application_id, dog_id, app, dog, es, w) ==
    LET scores == DimensionScores(app, dog, es)
        overall_score == OverallScore(scores, w)
        rc == GenerateRecommendation(overall_score, scores, app)
    IN  [overall_score    |-> RoundOverall(overall_score),
         dimension_scores |-> [d \in Dimensions |-> RoundScore(scores[d])],
         recommendation   |-> rc.recommendation,
         concerns         |-> rc.concerns,
         application_id   |-> application_id,
         dog_id           |-> dog_id]

NoResult ==
    [overall_score |-> 0, dimension_scores |-> [d \in Dimensions |-> 0],
     recommendation |-> "none", concerns |-> <<>>, application_id |-> 0,
     dog_id |-> 0]

(***************************************************************************)
(* Documents                                                               *)
(***************************************************************************)
T_Yes == <<"Y", "e", "s">>
T_No == <<"N", "o">>
T_Disagree == <<"D", "i", "s", "a", "g", "r", "e", "e">>
T_Maybe == <<"M", "a", "y", "b", "e">>
T_calm == <<"c", "a", "l", "m">>
T_Playful == <<"P", "l", "a", "y", "f", "u", "l">>

PetExperiences ==
    [has_current_or_past_pets : BOOLEAN,
     pet_history_details : {0, 120},
     volunteer_experience_details : {0, 80},
     ever_surrendered_pet : BOOLEAN,
     surrender_reason : {0, 40},
     new_pet_introduction_plan : {0, 50, 51, 200, 201}]

HousingInfos ==
    [size_sqm : {0, 69, 70, 100},
     has_yard_or_balcony : BOOLEAN,
     ownership_status : {"Owned", "Leased", "Rented"},
     landlord_permission_granted : {"Yes", "No", "Not_Applicable", None},
     type : {"Detached House", "Townhouse", "Apartment", "Condo"}]

ApplicationMetas ==
    [type : {"Adoption", "Foster", None}, is_kara_donor : BOOLEAN,
     status : {"Pending"}]

ApplicantInfos ==
    [marital_status : {"Married", "Single"}, emergency_contact_phone : {0, 11}]

HouseholdInfos ==
    [all_members_agree : {<<>>, T_Yes, T_No, T_Disagree, T_Maybe},
     has_allergies : BOOLEAN,
     allergy_details : {0, 30},
     household_size : {0, 1, 2},
     members_description : {100, 101}]

DogProfiles ==
    [weight_kg : {0, 15, 30, 31, 35, 36},
     behavioral_notes : {<<>>, T_calm, T_Playful}]

EsScores == {0, 7997, 9998, 10000, 15997, 16000, 20000, 25000}

EsAnswers ==
    {[kind |-> "error", score |-> 0], [kind |-> "empty", score |-> 0]}
    \cup {[kind |-> "hit", score |-> s] : s \in EsScores}

MkApp(pe, hi, am, ai, hh) ==
    [pet_experience |-> pe, housing_info |-> hi, application_meta |-> am,
     applicant_info |-> ai, household_info |-> hh]

\* Representative documents: a weak and a strong value of each group.
WeakExperience ==
    [has_current_or_past_pets |-> FALSE, pet_history_details |-> 0,
     volunteer_experience_details |-> 0, ever_surrendered_pet |-> TRUE,
     surrender_reason |-> 0, new_pet_introduction_plan |-> 0]
StrongExperience ==
    [has_current_or_past_pets |-> TRUE, pet_history_details |-> 120,
     volunteer_experience_details |-> 80, ever_surrendered_pet |-> FALSE,
     surrender_reason |-> 0, new_pet_introduction_plan |-> 201]
WeakHousing ==
    [size_sqm |-> 0, has_yard_or_balcony |-> FALSE, ownership_status |-> "Leased",
     landlord_permission_granted |-> "No", type |-> "Apartment"]
StrongHousing ==
    [size_sqm |-> 100, has_yard_or_balcony |-> TRUE, ownership_status |-> "Owned",
     landlord_permission_granted |-> "Not_Applicable", type |-> "Detached House"]
WeakMeta == [type |-> None, is_kara_donor |-> FALSE, status |-> "Pending"]
StrongMeta == [type |-> "Adoption", is_kara_donor |-> TRUE, status |-> "Pending"]
WeakApplicant == [marital_status |-> "Single", emergency_contact_phone |-> 0]
StrongApplicant == [marital_status |-> "Married", emergency_contact_phone |-> 11]
WeakHousehold ==
    [all_members_agree |-> T_No, has_allergies |-> TRUE, allergy_details |-> 0,
     household_size |-> 1, members_description |-> 100]
StrongHousehold ==
    [all_members_agree |-> T_Yes, has_allergies |-> FALSE, allergy_details |-> 0,
     household_size |-> 2, members_description |-> 101]
SmallCalmDog == [weight_kg |-> 15, behavioral_notes |-> T_calm]
LargePlayfulDog == [weight_kg |-> 36, behavioral_notes |-> T_Playful]

ExperienceReps == {WeakExperience, StrongExperience}
HousingReps == {WeakHousing, StrongHousing}
MetaReps == {WeakMeta, StrongMeta}
ApplicantReps == {WeakApplicant, StrongApplicant}
HouseholdReps == {WeakHousehold, StrongHousehold}
DogReps == {SmallCalmDog, LargePlayfulDog}
EsReps == {[kind |-> "error", score |-> 0], [kind |-> "hit", score |-> 20000]}

(***************************************************************************)
(* Call frames at rest                                                     *)
(***************************************************************************)
IdleCalc ==
    [pc |-> "idle", application_id |-> 0, dog_id |-> 0,
     app |-> MkApp(StrongExperience, StrongHousing, StrongMeta, StrongApplicant,
                   StrongHousehold),
     dog |-> SmallCalmDog, es |-> [kind |-> "empty", score |-> 0],
     result |-> NoResult]

IdleRec ==
    [pc |-> "idle", overall_score |-> 0,
     dimension_scores |-> [d \in Dimensions |-> 0],
     app |-> IdleCalc.app,
     result |-> [recommendation |-> "none", concerns |-> <<>>]]

(***************************************************************************)
(* calculate_compatibility on materialized documents                       *)
(***************************************************************************)
Calculate ==
    /\ calc.pc = "start"
    /\ calc' = [calc EXCEPT
                  !.pc = "done",
                  !.result = CompatibilityResult(calc.application_id, calc.dog_id,
                                                 calc.app, calc.dog, calc.es,
                                                 weights)]
    /\ UNCHANGED <<weights, rec, applications, dogs, rank, pred, calls,
                   predictions_log>>

(***************************************************************************)
(* _generate_recommendation as a function of its arguments                 *)
(***************************************************************************)
Recommend ==
    /\ rec.pc = "start"
    /\ rec' = [rec EXCEPT
                 !.pc = "done",
                 !.result = GenerateRecommendation(rec.overall_score,
                                                   rec.dimension_scores, rec.app)]
    /\ UNCHANGED <<weights, calc, applications, dogs, rank, pred, calls,
                   predictions_log>>


(***************************************************************************)
(* rank_applications_for_dog                                               *)
(***************************************************************************)
MaxApps == 3
MaxLimit == 3
FetchSize == 100

AppIds == 1..MaxApps
DogIds == {1}
Limits == (-1)..MaxLimit
Statuses == {"Pending", "Under_Review", "Approved"}

\* The documents of the index: two applicants, alternating by id, so that
\* several candidates can reach the same overall_score.
StoreDoc(id, status) ==
    LET am == [StrongMeta EXCEPT !.status = status]
    IN  IF id % 2 = 1
        THEN MkApp(StrongExperience, StrongHousing, am, StrongApplicant,
                   StrongHousehold)
        ELSE MkApp(StrongExperience, WeakHousing, am, WeakApplicant,
                   WeakHousehold)

Stores == {[id \in AppIds |-> StoreDoc(id, st[id])] : st \in [AppIds -> Statuses]}

\* FetchFrom without the terms filter on the status
RECURSIVE FetchFromAnyStatus(_, _)
FetchFromAnyStatus(store, id) ==
    IF id \notin DOMAIN store THEN <<>>
    ELSE <<[id |-> id, app_data |-> store[id]]>> \o FetchFromAnyStatus(store, id + 1)

\* s[0:100] of the ids whose status the terms filter accepts, in index order
RECURSIVE FetchFrom(_, _)
FetchFrom(store, id) ==
    IF id \notin DOMAIN store THEN <<>>
    ELSE (IF store[id].application_meta.status \in {"Pending", "Under_Review"}
          THEN <<[id |-> id, app_data |-> store[id]]>> ELSE <<>>)
         \o FetchFrom(store, id + 1)

FetchCandidates(store) ==
    LET all == FetchFrom(store, 1)
    IN  SubSeq(all, 1, Min(FetchSize, Len(all)))

\* InsertRanked that puts x in front of the entries with an equal key
RECURSIVE InsertRankedInFront(_, _)
InsertRankedInFront(sorted, x) ==
    IF sorted = <<>> THEN <<x>>
    ELSE IF Head(sorted).compatibility.overall_score > x.compatibility.overall_score
    THEN <<Head(sorted)>> \o InsertRankedInFront(Tail(sorted), x)
    ELSE <<x>> \o sorted

\* list.sort(key=overall_score, reverse=True): x goes behind every entry
\* whose key is not smaller, so equal keys keep their order.
RECURSIVE InsertRanked(_, _)
InsertRanked(sorted, x) ==
    IF sorted = <<>> THEN <<x>>
    ELSE IF Head(sorted).compatibility.overall_score >= x.compatibility.overall_score
    THEN <<Head(sorted)>> \o InsertRanked(Tail(sorted), x)
    ELSE <<x>> \o sorted

RECURSIVE SortRanked(_)
SortRanked(entries) ==
    IF entries = <<>> THEN <<>>
    ELSE InsertRanked(SortRanked(SubSeq(entries, 1, Len(entries) - 1)),
                      entries[Len(entries)])

\* TopN that keeps the last entries instead of the first
LastN(entries, limit) ==
    IF limit >= 0
    THEN SubSeq(entries, Len(entries) - Min(limit, Len(entries)) + 1, Len(entries))
    ELSE SubSeq(entries, 1, Max(Len(entries) + limit, 0))

\* ranked_applications[:limit]
TopN(entries, limit) ==
    IF limit >= 0 THEN SubSeq(entries, 1, Min(limit, Len(entries)))
    ELSE SubSeq(entries, 1, Max(Len(entries) + limit, 0))

\* An index with one eligible application more than a search returns
LargeStore == [id \in 1..(FetchSize + 1) |-> StoreDoc(id, "Pending")]
LargeFetch == FetchCandidates(LargeStore)

IdleRank ==
    [pc |-> "idle", dog_id |-> 0, limit |-> 0, hits |-> <<>>, i |-> 1,
     failed |-> {}, ranked |-> <<>>, returned |-> <<>>, cancelled |-> FALSE]

\* the search of lines 386-393; a failure of the search leaves by the outer handler
RankFetch ==
    /\ rank.pc = "idle"
    /\ \E dog_id \in DogIds, limit \in Limits :
        \/ rank' = [rank EXCEPT !.pc = "scoring", !.dog_id = dog_id,
                                !.limit = limit,
                                !.hits = FetchCandidates(applications)]
        \/ rank' = [rank EXCEPT !.pc = "error", !.dog_id = dog_id,
                                !.limit = limit]
    /\ UNCHANGED <<weights, calc, rec, applications, dogs, pred, calls,
                   predictions_log>>

\* AfterFailure that leaves the loop instead of continuing it
BreakAfterFailure(r) ==
    [r EXCEPT !.i = Len(r.hits) + 1, !.failed = r.failed \cup {r.hits[r.i].id}]

\* What the loop does after a candidate's calculate_compatibility raised;
\* failed holds the ids the handler has logged.
AfterFailure(r) ==
    [r EXCEPT !.i = r.i + 1, !.failed = r.failed \cup {r.hits[r.i].id}]

\* One iteration of the loop: calculate_compatibility raises (a document
\* that does not resolve, or a failing request) or returns.
RankScoreFails ==
    /\ rank.pc = "scoring"
    /\ rank.i <= Len(rank.hits)
    /\ rank' = AfterFailure(rank)
    /\ UNCHANGED <<weights, calc, rec, applications, dogs, pred, calls,
                   predictions_log>>

RankScoreReturns ==
    /\ rank.pc = "scoring"
    /\ rank.i <= Len(rank.hits)
    /\ rank.dog_id \in DOMAIN dogs
    /\ rank.hits[rank.i].id \in DOMAIN applications
    /\ \E es \in EsReps :
        LET hit == rank.hits[rank.i]
            compatibility ==
                CompatibilityResult(hit.id, rank.dog_id, applications[hit.id],
                                    dogs[rank.dog_id], es, weights)
        IN  rank' = [rank EXCEPT
                       !.i = rank.i + 1,
                       !.ranked = Append(rank.ranked,
                                         [application |-> hit,
                                          compatibility |-> compatibility])]
    /\ UNCHANGED <<weights, calc, rec, applications, dogs, pred, calls,
                   predictions_log>>

\* AfterCancel in which the handler of lines 412-416 catches the
\* cancellation like any failure of the candidate
SkipAfterCancel(r) ==
    [r EXCEPT !.i = r.i + 1, !.failed = r.failed \cup {r.hits[r.i].id},
              !.cancelled = TRUE]

\* asyncio.CancelledError derives from BaseException: neither the handler
\* of the candidate (line 412) nor the outer one (line 426) catches it, and
\* the call ends with it.
AfterCancel(r) == [r EXCEPT !.pc = "cancelled", !.cancelled = TRUE]

\* The request is cancelled while the loop awaits calculate_compatibility
\* for the candidate at i.
RankCancel ==
    /\ rank.pc = "scoring"
    /\ rank.i <= Len(rank.hits)
    /\ ~rank.cancelled
    /\ rank' = AfterCancel(rank)
    /\ UNCHANGED <<weights, calc, rec, applications, dogs, pred, calls,
                   predictions_log>>

RankReturn ==
    /\ rank.pc = "scoring"
    /\ rank.i > Len(rank.hits)
    /\ rank' = [rank EXCEPT !.pc = "done",
                            !.ranked = SortRanked(rank.ranked),
                            !.returned = TopN(SortRanked(rank.ranked), rank.limit)]
    /\ UNCHANGED <<weights, calc, rec, applications, dogs, pred, calls,
                   predictions_log>>

\* update_application saves other contents under the id of an application
\* while a ranking call is between two awaits.
ApplicationWrite ==
    /\ rank.pc = "scoring"
    /\ \E id \in DOMAIN applications :
        LET doc == StoreDoc(id + 1, applications[id].application_meta.status)
        IN  /\ doc # applications[id]
            /\ applications' = [applications EXCEPT ![id] = doc]
    /\ UNCHANGED <<weights, calc, rec, dogs, rank, pred, calls,
                   predictions_log>>

\* update_dog saves another profile, delete_dog removes the dog, while a
\* ranking call is between two awaits.
DogWrite ==
    /\ rank.pc = "scoring"
    /\ \E d \in {<<>>} \cup {[id \in DogIds |-> p] : p \in DogReps} :
        /\ d # dogs
        /\ dogs' = d
    /\ UNCHANGED <<weights, calc, rec, applications, rank, pred, calls,
                   predictions_log>>


(***************************************************************************)
(* predict_adoption_outcome                                                *)
(***************************************************************************)
MaxHits == 3
MaxExplainHits == 1
FallbackSize == 10
ExplainSize == 3

\* _score of a hit, counted in 1/100
HitScores == {0, 90, 120, 150, 180}

\* Elasticsearch returns the hits of a query by descending _score.
Descending(scores) ==
    \A i \in 1..(Len(scores) - 1) : scores[i] >= scores[i + 1]

HitLists(n) ==
    UNION {{h \in [1..k -> HitScores] : Descending(h)} : k \in 0..n}

\* The answer of a search with [0:size]: it raises, or returns its hits.
SearchAnswers(size, most) ==
    {[kind |-> "error", hits |-> <<>>]}
    \cup {[kind |-> "ok", hits |-> h] : h \in HitLists(Min(size, most))}

\* The answer of ML.PREDICT: the query raises, returns no row, or returns a
\* row; prob counts 1/100000.
ClassifierAnswers ==
    {[kind |-> "error", predicted |-> FALSE, prob |-> 0],
     [kind |-> "empty", predicted |-> FALSE, prob |-> 0],
     [kind |-> "row", predicted |-> TRUE, prob |-> 91234],
     [kind |-> "row", predicted |-> TRUE, prob |-> 70000],
     [kind |-> "row", predicted |-> FALSE, prob |-> 88888]}

RECURSIVE Sum(_)
Sum(scores) == IF scores = <<>> THEN 0 ELSE Head(scores) + Sum(Tail(scores))

GenerateMlRecommendation(predicted_success, confidence) ==
    IF predicted_success /\ confidence > 85000
    THEN "Strong Match - Proceed with adoption (ML confidence: high)"
    ELSE IF predicted_success /\ confidence > 70000
    THEN "Good Match - Proceed with adoption (ML confidence: moderate)"
    ELSE IF predicted_success
    THEN "Possible Match - Schedule meet-and-greet (ML confidence: low)"
    ELSE IF ~predicted_success /\ confidence > 85000
    THEN "High Risk - Not recommended (ML predicts failure with high confidence)"
    ELSE "Uncertain - Consider trial foster period (ML confidence: low)"

\* The dict predict_outcome_ml returns; confidence counts 1/10000.
MlResult(row) ==
    [predicted_outcome |-> IF row.predicted THEN "success" ELSE "returned",
     confidence |-> RoundDiv(row.prob, 10),
     recommendation |-> GenerateMlRecommendation(row.predicted, row.prob),
     source |-> "none",
     top_similar_successes |-> <<>>,
     top_similar_failures |-> <<>>]

Top3(hits) == SubSeq(hits, 1, Min(3, Len(hits)))

\* PredictsSuccess with success_ratio >= 0.5
PredictsSuccessFromHalf(success_total, failed_total) ==
    IF success_total + failed_total > 0
    THEN 2 * success_total >= success_total + failed_total
    ELSE FALSE

\* success_ratio > 0.5, with success_ratio = 0.5 when total_score is not > 0
PredictsSuccess(success_total, failed_total) ==
    IF success_total + failed_total > 0
    THEN 2 * success_total > success_total + failed_total
    ELSE FALSE

\* round(confidence, 4), counted in 1/10000
FallbackConfidence(success_total, failed_total) ==
    IF success_total + failed_total > 0
    THEN IF PredictsSuccess(success_total, failed_total)
         THEN RoundRatio4(success_total, success_total + failed_total)
         ELSE RoundRatio4(failed_total, success_total + failed_total)
    ELSE 5000

FallbackResult(success_scores, failed_scores) ==
    LET success_total == Sum(success_scores)
        failed_total == Sum(failed_scores)
        success == PredictsSuccess(success_total, failed_total)
    IN  [predicted_outcome |-> IF success THEN "success" ELSE "returned",
         confidence |-> FallbackConfidence(success_total, failed_total),
         recommendation |-> IF success THEN "Proceed with adoption"
                            ELSE "High risk - recommend trial foster",
         source |-> "Elasticsearch Semantic Pattern Matching",
         top_similar_successes |-> Top3(success_scores),
         top_similar_failures |-> Top3(failed_scores)]

NoPrediction ==
    [predicted_outcome |-> "none", confidence |-> 0, recommendation |-> "none",
     source |-> "none", top_similar_successes |-> <<>>,
     top_similar_failures |-> <<>>]

IdlePred ==
    [pc |-> "idle", classifier |-> [kind |-> "none", predicted |-> FALSE, prob |-> 0],
     success_scores |-> <<>>, failed_scores |-> <<>>, result |-> NoPrediction,
     \* how often this call has asked each collaborator
     classifier_calls |-> 0, success_searches |-> 0, failed_searches |-> 0]

\* LogPrediction that inserts the row a second time
LogPredictionTwice(log, result, inserted) ==
    IF inserted
    THEN log \o <<[predicted_outcome |-> result.predicted_outcome,
                   confidence |-> result.confidence],
                  [predicted_outcome |-> result.predicted_outcome,
                   confidence |-> result.confidence]>>
    ELSE log

\* _log_prediction: insert_rows_json adds one row to predictions_log; an
\* insert that fails is logged and the prediction is returned all the same.
LogPrediction(log, result, inserted) ==
    IF inserted
    THEN Append(log, [predicted_outcome |-> result.predicted_outcome,
                      confidence |-> result.confidence])
    ELSE log

\* bigquery_service.predict_outcome_ml, awaited inside the inner try
PredictClassifier ==
    /\ pred.pc = "idle"
    /\ \E answer \in ClassifierAnswers, inserted \in BOOLEAN :
        /\ pred' = [pred EXCEPT
                      !.classifier = answer,
                      !.classifier_calls = pred.classifier_calls + 1,
                      !.pc = IF answer.kind = "row" THEN "explain" ELSE "fallback",
                      !.result = IF answer.kind = "row" THEN MlResult(answer)
                                 ELSE pred.result]
        /\ predictions_log' =
              IF answer.kind = "row"
              THEN LogPrediction(predictions_log, MlResult(answer), inserted)
              ELSE predictions_log
    /\ UNCHANGED <<weights, calc, rec, applications, dogs, rank, calls>>

\* query_job.result() is awaited without a timeout (lines 168-169): while
\* BigQuery does not answer, the handler stays in this await.
PredictClassifierHangs ==
    /\ pred.pc = "idle"
    /\ pred' = [pred EXCEPT
                  !.classifier = [kind |-> "never", predicted |-> FALSE, prob |-> 0],
                  !.classifier_calls = pred.classifier_calls + 1,
                  !.pc = "waiting"]
    /\ UNCHANGED <<weights, calc, rec, applications, dogs, rank, calls,
                   predictions_log>>

\* Where the inner try goes after _explain_with_es
AfterExplain(p, success, failed) ==
    LET q == [p EXCEPT
                !.success_searches = p.success_searches + 1,
                !.failed_searches = p.failed_searches
                                    + (IF success.kind = "ok" THEN 1 ELSE 0)]
    IN  IF success.kind = "ok" /\ failed.kind = "ok"
        THEN [q EXCEPT !.pc = "done",
                       !.result = [p.result EXCEPT
                                     !.source = "BigQuery ML",
                                     !.top_similar_successes = success.hits,
                                     !.top_similar_failures = failed.hits]]
        ELSE [q EXCEPT !.pc = "fallback"]

\* _explain_with_es: its two searches, still inside the inner try
PredictExplain ==
    /\ pred.pc = "explain"
    /\ \E success \in SearchAnswers(ExplainSize, MaxExplainHits),
          failed \in SearchAnswers(ExplainSize, MaxExplainHits) :
        pred' = AfterExplain(pred, success, failed)
    /\ UNCHANGED <<weights, calc, rec, applications, dogs, rank, calls,
                   predictions_log>>

\* Where the handler goes after a search of the fallback
AfterFallbackSearch(p, answer, next) ==
    IF answer.kind = "ok" THEN [p EXCEPT !.pc = next] ELSE [p EXCEPT !.pc = "error"]

\* the except branch: the search of the successful outcomes
PredictFallbackSuccess ==
    /\ pred.pc = "fallback"
    /\ \E answer \in SearchAnswers(FallbackSize, MaxHits) :
        pred' = [AfterFallbackSearch(pred, answer, "fallback_failed")
                    EXCEPT !.success_scores = answer.hits,
                           !.success_searches = pred.success_searches + 1]
    /\ UNCHANGED <<weights, calc, rec, applications, dogs, rank, calls,
                   predictions_log>>

\* the search of the returned outcomes, then the vote and the result
PredictFallbackFailed ==
    /\ pred.pc = "fallback_failed"
    /\ \E answer \in SearchAnswers(FallbackSize, MaxHits) :
        LET p == AfterFallbackSearch(pred, answer, "done")
        IN  pred' = [p EXCEPT
                       !.failed_scores = answer.hits,
                       !.failed_searches = pred.failed_searches + 1,
                       !.result = IF p.pc = "done"
                                  THEN FallbackResult(pred.success_scores, answer.hits)
                                  ELSE pred.result]
    /\ UNCHANGED <<weights, calc, rec, applications, dogs, rank, calls,
                   predictions_log>>


(***************************************************************************)
(* calculate_compatibility called with ids, one call after another         *)
(***************************************************************************)
MaxCalls == 2

\* The ids a caller may pass: the last one of each resolves to no record.
RequestAppIds == 1..(MaxApps + 1)
RequestDogIds == DogIds \cup {Cardinality(DogIds) + 1}

\* CalculateCompatibility that scores a dog it did not find as a default dog
CalculateCompatibilityDefaultDog(application_id, dog_id, store, dogstore, es, w) ==
    IF application_id \notin DOMAIN store
    THEN [raised |-> "NotFoundError", result |-> NoResult]
    ELSE [raised |-> "none",
          result |-> CompatibilityResult(application_id, dog_id,
                                         store[application_id],
                                         IF dog_id \in DOMAIN dogstore
                                         THEN dogstore[dog_id] ELSE SmallCalmDog,
                                         es, w)]

\* Application.get and Dog.get raise NotFoundError for an id without a
\* document; the handler of lines 85-87 logs and raises it again.
CalculateCompatibility(application_id, dog_id, store, dogstore, es, w) ==
    IF application_id \notin DOMAIN store \/ dog_id \notin DOMAIN dogstore
    THEN [raised |-> "NotFoundError", result |-> NoResult]
    ELSE [raised |-> "none",
          result |-> CompatibilityResult(application_id, dog_id,
                                         store[application_id], dogstore[dog_id],
                                         es, w)]

\* One whole call; es is what the similarity search answers during it.
CalculateCall ==
    /\ Len(calls) < MaxCalls
    /\ \E application_id \in RequestAppIds, dog_id \in RequestDogIds,
          es \in EsReps :
        LET answer == CalculateCompatibility(application_id, dog_id,
                                             applications, dogs, es, weights)
        IN  calls' = Append(calls, [application_id |-> application_id,
                                    dog_id |-> dog_id, es |-> es,
                                    raised |-> answer.raised,
                                    result |-> answer.result])
    /\ UNCHANGED <<weights, calc, rec, applications, dogs, rank, pred,
                   predictions_log>>


(***************************************************************************)
(* Specifications                                                          *)
(***************************************************************************)
DogStores == {<<>>} \cup {[id \in DogIds |-> d] : d \in DogReps}

RestStore == [id \in AppIds |-> StoreDoc(id, "Pending")]
RestDogs == [id \in DogIds |-> SmallCalmDog]

\* The arguments of one calculate_compatibility call
StartCalc(app, dog, es) ==
    calc = [IdleCalc EXCEPT !.pc = "start", !.application_id = 1, !.dog_id = 1,
                            !.app = app, !.dog = dog, !.es = es]

\* The scorers and calculate_compatibility on every value of one group of
\* fields, with a weak and a strong value of the other groups.
InitScore ==
    /\ weights = DimensionWeights
    /\ \/ \E pe \in PetExperiences, hi \in HousingReps, hh \in HouseholdReps,
             d \in DogReps, es \in EsReps :
            StartCalc(MkApp(pe, hi, StrongMeta, StrongApplicant, hh), d, es)
       \/ \E pe \in ExperienceReps, hi \in HousingInfos, hh \in HouseholdReps,
             d \in DogProfiles, es \in EsReps :
            StartCalc(MkApp(pe, hi, StrongMeta, StrongApplicant, hh), d, es)
       \/ \E pe \in ExperienceReps, hi \in HousingReps, am \in ApplicationMetas,
             ai \in ApplicantInfos, d \in DogReps, es \in EsReps :
            StartCalc(MkApp(pe, hi, am, ai, StrongHousehold), d, es)
       \/ \E pe \in ExperienceReps, hi \in HousingReps, ai \in ApplicantInfos,
             hh \in HouseholdInfos, d \in DogReps, es \in EsReps :
            StartCalc(MkApp(pe, hi, StrongMeta, ai, hh), d, es)
       \/ \E pe \in ExperienceReps, hi \in HousingReps, am \in MetaReps,
             hh \in HouseholdReps, d \in DogReps, es \in EsAnswers :
            StartCalc(MkApp(pe, hi, am, StrongApplicant, hh), d, es)
    /\ rec = IdleRec
    /\ applications = RestStore
    /\ dogs = RestDogs
    /\ rank = IdleRank
    /\ pred = IdlePred
    /\ calls = <<>>
    /\ predictions_log = <<>>

NextScore == Calculate

SpecScore == InitScore /\ [][NextScore]_vars

\* _generate_recommendation on arguments around its thresholds
RecOveralls == {0, 4999000, 5000000, 7999000, 8000000, 9500000, 10000000}

RecScores ==
    [experience : {39000, 40000}, housing : {49000, 50000},
     lifestyle : {49000, 50000}, household : {49000, 50000},
     motivation : {49999, 50000}]

RecApps ==
    {MkApp(pe, hi, StrongMeta, StrongApplicant, hh) :
        pe \in ExperienceReps
               \cup {[WeakExperience EXCEPT !.surrender_reason = 40]},
        hi \in HousingReps
               \cup {[WeakHousing EXCEPT !.landlord_permission_granted = "Yes",
                                         !.ownership_status = "Rented"],
                     [WeakHousing EXCEPT !.landlord_permission_granted = None]},
        hh \in HouseholdReps}

InitRecommend ==
    /\ weights = DimensionWeights
    /\ calc = IdleCalc
    /\ \E overall_score \in RecOveralls, scores \in RecScores, app \in RecApps :
        rec = [IdleRec EXCEPT !.pc = "start", !.overall_score = overall_score,
                              !.dimension_scores = scores, !.app = app]
    /\ applications = RestStore
    /\ dogs = RestDogs
    /\ rank = IdleRank
    /\ pred = IdlePred
    /\ calls = <<>>
    /\ predictions_log = <<>>

NextRecommend == Recommend

SpecRecommend == InitRecommend /\ [][NextRecommend]_vars

\* One ranking call over every store
InitRank ==
    /\ weights = DimensionWeights
    /\ calc = IdleCalc
    /\ rec = IdleRec
    /\ applications \in Stores
    /\ dogs \in DogStores
    /\ rank = IdleRank
    /\ pred = IdlePred
    /\ calls = <<>>
    /\ predictions_log = <<>>

NextRank ==
    \/ RankFetch
    \/ RankScoreFails
    \/ RankScoreReturns
    \/ RankCancel
    \/ RankReturn

SpecRank == InitRank /\ [][NextRank]_vars

\* One ranking call while the persistence layer writes to the stores
InitRankLive ==
    /\ weights = DimensionWeights
    /\ calc = IdleCalc
    /\ rec = IdleRec
    /\ applications = RestStore
    /\ dogs \in DogStores
    /\ rank = IdleRank
    /\ pred = IdlePred
    /\ calls = <<>>
    /\ predictions_log = <<>>

NextRankLive == NextRank \/ ApplicationWrite \/ DogWrite

SpecRankLive == InitRankLive /\ [][NextRankLive]_vars

\* One prediction call
InitPredict ==
    /\ weights = DimensionWeights
    /\ calc = IdleCalc
    /\ rec = IdleRec
    /\ applications = RestStore
    /\ dogs = RestDogs
    /\ rank = IdleRank
    /\ pred = IdlePred
    /\ calls = <<>>
    /\ predictions_log = <<>>

NextPredict ==
    \/ PredictClassifier
    \/ PredictClassifierHangs
    \/ PredictExplain
    \/ PredictFallbackSuccess
    \/ PredictFallbackFailed

SpecPredict == InitPredict /\ [][NextPredict]_vars

\* Calls of calculate_compatibility by id, over a store that stays as it is
InitCalls ==
    /\ weights = DimensionWeights
    /\ calc = IdleCalc
    /\ rec = IdleRec
    /\ applications = RestStore
    /\ dogs \in DogStores
    /\ rank = IdleRank
    /\ pred = IdlePred
    /\ calls = <<>>
    /\ predictions_log = <<>>

NextCalls == CalculateCall

SpecCalls == InitCalls /\ [][NextCalls]_vars

\* Any one of the three operations over the same stores: a ranking call, a
\* prediction call, or calls of calculate_compatibility
InitOps ==
    /\ weights = DimensionWeights
    /\ calc = IdleCalc
    /\ rec = IdleRec
    /\ applications = RestStore
    /\ dogs = RestDogs
    /\ rank = IdleRank
    /\ pred = IdlePred
    /\ calls = <<>>
    /\ predictions_log = <<>>

NextOps ==
    \/ (pred.pc = "idle" /\ calls = <<>> /\ RankFetch)
    \/ RankScoreFails
    \/ RankScoreReturns
    \/ RankCancel
    \/ RankReturn
    \/ (rank.pc = "idle" /\ calls = <<>> /\ PredictClassifier)
    \/ (rank.pc = "idle" /\ calls = <<>> /\ PredictClassifierHangs)
    \/ PredictExplain
    \/ PredictFallbackSuccess
    \/ PredictFallbackFailed
    \/ (rank.pc = "idle" /\ pred.pc = "idle" /\ CalculateCall)

SpecOps == InitOps /\ [][NextOps]_vars


(***************************************************************************)
(* Properties of the scores and of the recommendation                      *)
(***************************************************************************)
HasCritical(concerns) == \E i \in 1..Len(concerns) : concerns[i] = CriticalConcern

\* C1: in the result of calculate_compatibility each of the five dimension
\* scores and the overall_score lie in [0,100], for every application, dog
\* and raw similarity score.
C1_ScoresWithinRange ==
    calc.pc = "done" =>
        /\ \A d \in Dimensions :
            /\ calc.result.dimension_scores[d] >= 0
            /\ calc.result.dimension_scores[d] <= 100 * 100
        /\ calc.result.overall_score >= 0
        /\ calc.result.overall_score <= 100 * 100

\* A call whose raw similarity score is above 2 and whose rule sum for
\* housing is above 100: both scores are cut to 100.
C1_Witness ==
    /\ calc.pc = "done"
    /\ calc.es.kind = "hit"
    /\ calc.es.score > 20000
    /\ calc.result.dimension_scores.motivation = 100 * 100
    /\ calc.app.housing_info = StrongHousing
    /\ calc.dog = LargePlayfulDog
    /\ calc.result.dimension_scores.housing = 100 * 100

\* C2: the recommendation is reject if a concern is CRITICAL or the
\* overall_score is below 50; otherwise approve if the overall_score is at
\* least 80 with at most one concern; otherwise review.  79.99 with two
\* concerns is review, 80.00 with one concern is approve, 49.99 is reject, a
\* CRITICAL concern is reject at 95.
C2_DecisionRule ==
    rec.pc = "done" =>
        LET n == Len(rec.result.concerns)
            critical == HasCritical(rec.result.concerns)
            r == rec.result.recommendation
        IN  /\ (critical \/ rec.overall_score < 5000000) => r = "reject"
            /\ (~critical /\ rec.overall_score >= 8000000 /\ n <= 1) => r = "approve"
            /\ (~critical /\ rec.overall_score >= 5000000
                /\ ~(rec.overall_score >= 8000000 /\ n <= 1)) => r = "review"
            /\ (rec.overall_score = 7999000 /\ n = 2 /\ ~critical) => r = "review"
            /\ (rec.overall_score = 8000000 /\ n = 1) => r = "approve"
            /\ rec.overall_score = 4999000 => r = "reject"
            /\ (rec.overall_score = 9500000 /\ critical) => r = "reject"

\* A call at 80.00 with exactly one concern that approves.
C2_Witness ==
    /\ rec.pc = "done"
    /\ rec.overall_score = 8000000
    /\ Len(rec.result.concerns) = 1
    /\ rec.result.recommendation = "approve"

\* C3: whenever the tenancy is Leased or Rented and the landlord permission
\* is "No", the result holds a CRITICAL concern and the recommendation is
\* reject.
C3_NoPermissionRejects ==
    (/\ calc.pc = "done"
     /\ calc.app.housing_info.ownership_status \in {"Leased", "Rented"}
     /\ calc.app.housing_info.landlord_permission_granted = "No")
    => /\ HasCritical(calc.result.concerns)
       /\ calc.result.recommendation = "reject"

\* C10: the weights are 0.25, 0.20, 0.15, 0.15, 0.25, sum to 1, never change,
\* and the overall_score is the weighted sum of the five dimension scores
\* rounded to 2 decimals.
C10_WeightedSum ==
    /\ weights = [experience |-> 25, housing |-> 20, lifestyle |-> 15,
                  household |-> 15, motivation |-> 25]
    /\ weights.experience + weights.housing + weights.lifestyle
       + weights.household + weights.motivation = 100
    /\ calc.pc = "done" =>
        calc.result.overall_score =
            RoundDiv(25 * ScoreExperience(calc.app)
                     + 20 * ScoreHousing(calc.app, calc.dog)
                     + 15 * ScoreLifestyle(calc.app)
                     + 15 * ScoreHousehold(calc.app)
                     + 25 * ScoreMotivation(calc.es), 1000)

\* A call whose weighted sum is not a multiple of 0.01 and whose housing and
\* motivation scores differ.
C10_Witness ==
    /\ calc.pc = "done"
    /\ OverallScore(DimensionScores(calc.app, calc.dog, calc.es), weights)
          % 1000 # 0
    /\ ScoreHousing(calc.app, calc.dog) # ScoreMotivation(calc.es)


(***************************************************************************)
(* Properties of the ranking                                               *)
(***************************************************************************)
Key(entry) == entry.compatibility.overall_score

\* The position of an application in the answer of the candidate fetch
FetchPosition(id) == CHOOSE k \in 1..Len(rank.hits) : rank.hits[k].id = id

RankedIds(entries) == {entries[k].application.id : k \in 1..Len(entries)}

\* C4: the returned list is ordered by overall_score non-increasing, and
\* candidates with an equal overall_score keep the relative order in which
\* the candidate fetch returned them.
C4_SortedAndStable ==
    rank.pc = "done" =>
        \A i, j \in 1..Len(rank.returned) :
            i < j =>
                /\ Key(rank.returned[i]) >= Key(rank.returned[j])
                /\ Key(rank.returned[i]) = Key(rank.returned[j])
                   => FetchPosition(rank.returned[i].application.id)
                      < FetchPosition(rank.returned[j].application.id)

\* A returned list with two equal scores, and a candidate that moved in front
\* of one fetched before it.
C4_Witness ==
    /\ rank.pc = "done"
    /\ \E i, j \in 1..Len(rank.returned) :
        i < j /\ Key(rank.returned[i]) = Key(rank.returned[j])
    /\ \E i, j \in 1..Len(rank.returned) :
        /\ i < j
        /\ FetchPosition(rank.returned[i].application.id)
           > FetchPosition(rank.returned[j].application.id)

\* C5: for a limit in [1,100] the call returns exactly the first
\* min(limit, number of scored candidates) entries of the sorted list.
C5_FirstLimitEntries ==
    (rank.pc = "done" /\ rank.limit >= 1 /\ rank.limit <= 100) =>
        /\ Len(rank.returned) = Min(rank.limit, Len(rank.ranked))
        /\ \A k \in 1..Len(rank.returned) : rank.returned[k] = rank.ranked[k]

\* A call that cut the list: more candidates were scored than the limit, and
\* the one left out has a lower score than one returned.
C5_Witness ==
    /\ rank.pc = "done"
    /\ rank.limit >= 1
    /\ Len(rank.ranked) > rank.limit
    /\ Key(rank.ranked[Len(rank.ranked)]) < Key(rank.returned[1])

\* C6: a failure while scoring one candidate excludes exactly that candidate:
\* the call does not fail, every candidate before the loop position is
\* either scored and in the list or logged as failed, and the loop reaches
\* every candidate before it returns.
C6_FailureSkipsOneCandidate ==
    /\ rank.pc = "error" => (rank.failed = {} /\ rank.hits = <<>>)
    /\ rank.pc \in {"scoring", "done"} =>
        /\ RankedIds(rank.ranked) \cap rank.failed = {}
        /\ RankedIds(rank.ranked) \cup rank.failed
           = {rank.hits[k].id : k \in 1..(rank.i - 1)}
        /\ Len(rank.ranked) = Cardinality(RankedIds(rank.ranked))
    /\ rank.pc = "done" => rank.i = Len(rank.hits) + 1

\* A finished call in which a candidate failed and one fetched after it is in
\* the list.
C6_Witness ==
    /\ rank.pc = "done"
    /\ \E f \in rank.failed, k \in 1..Len(rank.ranked) :
        FetchPosition(f) < FetchPosition(rank.ranked[k].application.id)

(***************************************************************************)
(* Properties of the prediction                                            *)
(***************************************************************************)
Finished == pred.pc \in {"done", "error"}

\* C7: whenever the classifier returns a prediction, the result has source
\* classifier, the outcome of the classifier's bool and the classifier's
\* probability (as reported, to 4 decimals) as confidence, whatever the
\* similarity search does afterwards.
C7_ClassifierResultStands ==
    (pred.pc = "done" /\ pred.classifier.kind = "row") =>
        /\ pred.result.source = "BigQuery ML"
        /\ pred.result.predicted_outcome
           = (IF pred.classifier.predicted THEN "success" ELSE "returned")
        /\ pred.result.confidence = RoundDiv(pred.classifier.prob, 10)

\* C8: whenever the classifier call raises or returns no row, the call does
\* not fail: it returns a result with source similarity_fallback.
C8_FallbackNeverFails ==
    (Finished /\ pred.classifier.kind \in {"error", "empty"}) =>
        /\ pred.pc = "done"
        /\ pred.result.source = "Elasticsearch Semantic Pattern Matching"

\* C9: on the fallback path ratio = success_total / (success_total +
\* failure_total), or 0.5 when that sum is zero; the outcome is success iff
\* ratio > 0.5; confidence is ratio for success and 1 - ratio for returned
\* (reported to 4 decimals).  No hits give returned at 0.5; [1.8, 1.5, 1.2]
\* against [0.9] give success at 0.8333.
C9_FallbackVote ==
    (pred.pc = "done"
     /\ pred.result.source = "Elasticsearch Semantic Pattern Matching") =>
        LET s == Sum(pred.success_scores)
            f == Sum(pred.failed_scores)
            success == (s + f # 0) /\ (2 * s > s + f)
        IN  /\ pred.result.predicted_outcome
               = (IF success THEN "success" ELSE "returned")
            /\ pred.result.confidence
               = (IF s + f = 0 THEN 5000
                  ELSE IF success THEN RoundRatio4(s, s + f)
                  ELSE RoundRatio4(s + f - s, s + f))
            /\ (pred.success_scores = <<>> /\ pred.failed_scores = <<>>)
               => (pred.result.predicted_outcome = "returned"
                   /\ pred.result.confidence = 5000)
            /\ (pred.success_scores = <<180, 150, 120>>
                /\ pred.failed_scores = <<90>>)
               => (pred.result.predicted_outcome = "success"
                   /\ pred.result.confidence = 8333)

\* A fallback vote between sides of equal weight: ratio is exactly 0.5.
C9_Witness ==
    /\ pred.pc = "done"
    /\ pred.result.source = "Elasticsearch Semantic Pattern Matching"
    /\ pred.success_scores = <<180>>
    /\ pred.failed_scores = <<90, 90>>
    /\ pred.result.predicted_outcome = "returned"
    /\ pred.result.confidence = 5000

(***************************************************************************)
(* Properties of repeated calls of calculate_compatibility                 *)
(***************************************************************************)
Returned(c) == c.raised = "none"

\* C11: two calculate_compatibility calls on the same application and dog,
\* neither of them changed in between, return the same CompatibilityResult.
C11_SamePairSameResult ==
    \A i \in 1..Len(calls), j \in 1..Len(calls) :
        (/\ calls[i].application_id = calls[j].application_id
         /\ calls[i].dog_id = calls[j].dog_id
         /\ Returned(calls[i])
         /\ Returned(calls[j]))
        => calls[i].result = calls[j].result

Resolves(c) == c.application_id \in DOMAIN applications /\ c.dog_id \in DOMAIN dogs

\* C12: a call whose application id or dog id has no document raises
\* NotFoundError and returns no result, and a call whose ids both have a
\* document returns a result for them, whatever the calls before it raised.
C12_NotFoundPropagates ==
    \A k \in 1..Len(calls) :
        IF Resolves(calls[k])
        THEN /\ Returned(calls[k])
             /\ calls[k].result # NoResult
             /\ calls[k].result.application_id = calls[k].application_id
             /\ calls[k].result.dog_id = calls[k].dog_id
        ELSE /\ calls[k].raised = "NotFoundError"
             /\ calls[k].result = NoResult

C12_Witness ==
    /\ Len(calls) >= 2
    /\ ~Resolves(calls[1])
    /\ calls[1].raised = "NotFoundError"
    /\ Resolves(calls[2])
    /\ Returned(calls[2])

(***************************************************************************)
(* Properties of the candidate pool                                        *)
(***************************************************************************)
Eligible(status) == status \in {"Pending", "Under_Review"}

\* C13: a ranking call scores at most 100 candidates (an index with 101
\* eligible applications yields 100 of them), and every application it
\* fetched, scored or returned had the status Pending or Under_Review in the
\* index; an application with another status never appears.
C13_PoolIsCappedAndEligible ==
    /\ Len(LargeFetch) = FetchSize
    /\ Len(rank.hits) <= FetchSize
    /\ Len(rank.ranked) + Cardinality(rank.failed) <= FetchSize
    /\ \A k \in 1..Len(rank.hits) :
        /\ Eligible(rank.hits[k].app_data.application_meta.status)
        /\ rank.hits[k].app_data = applications[rank.hits[k].id]
    /\ \A k \in 1..Len(rank.ranked) :
        Eligible(applications[rank.ranked[k].application.id].application_meta.status)
    /\ \A k \in 1..Len(rank.returned) :
        Eligible(applications[rank.returned[k].application.id].application_meta.status)

C13_Witness ==
    /\ rank.pc = "done"
    /\ Len(rank.returned) >= 2
    /\ \E id \in DOMAIN applications :
        /\ ~Eligible(applications[id].application_meta.status)
        /\ \A k \in 1..Len(rank.hits) : rank.hits[k].id # id
    /\ \E k \in 1..Len(rank.returned) :
        rank.returned[k].application.app_data.application_meta.status = "Under_Review"

(***************************************************************************)
(* Properties of the collaborator calls of a prediction                    *)
(***************************************************************************)
\* C14: on the fallback path a similarity search that fails or times out
\* only empties its own score list: the call never ends with an error, it
\* returns a result computed from the scores of the other search.
C14_FailedSearchOnlyEmptiesItsSide ==
    /\ pred.pc # "error"
    /\ (pred.pc = "done" /\ pred.success_searches + pred.failed_searches > 0
         /\ pred.result.source # "BigQuery ML")
        => pred.result = FallbackResult(pred.success_scores, pred.failed_scores)

\* C15: a prediction call whose classifier never answers does not stay in
\* the classifier call: as long as the call has not ended, the handler has
\* a step to take (the timeout that sends it to the fallback).
C15_ClassifierCallIsBounded == Finished \/ ENABLED NextPredict

\* C16: within one prediction call the classifier is invoked at most once,
\* and the search of the successful outcomes and the search of the returned
\* outcomes are each issued at most once.
C16_NoCollaboratorCallRepeated ==
    /\ pred.classifier_calls <= 1
    /\ pred.success_searches <= 1
    /\ pred.failed_searches <= 1

(***************************************************************************)
(* Cancellation of a ranking request                                       *)
(***************************************************************************)
\* C17: once a ranking request in flight is cancelled, no scoring of a
\* further candidate starts and the call does not go on to sort and return;
\* the cancellation is not handled as a failure of the candidate, which is
\* neither logged as failed nor skipped.
C17_CancellationStopsTheLoop ==
    rank.cancelled =>
        /\ rank.pc = "cancelled"
        /\ ~ENABLED RankScoreReturns
        /\ ~ENABLED RankScoreFails
        /\ ~ENABLED RankReturn
        /\ rank.i <= Len(rank.hits)
        /\ rank.hits[rank.i].id \notin rank.failed
        /\ rank.i = Len(rank.ranked) + Cardinality(rank.failed) + 1
        /\ rank.returned = <<>>

C17_Witness ==
    /\ rank.cancelled
    /\ rank.i >= 2
    /\ rank.i < Len(rank.hits)
    /\ rank.failed # {}

(***************************************************************************)
(* What the operations write                                               *)
(***************************************************************************)
\* C18: the three operations are read-only: after any of their steps the
\* applications, the dogs and every other table of the collaborators
\* (predictions_log among them) hold what they held before.
C18_StoresKeepTheirContents ==
    /\ applications = RestStore
    /\ dogs = RestDogs
    /\ predictions_log = <<>>

\* C18, amended: no operation changes the applications or the dogs; the
\* only write is the row a prediction call appends to predictions_log when
\* the classifier returned a prediction: at most one row per call, holding
\* the classifier's outcome and rounded confidence, and none when the
\* classifier failed or when the call is a ranking or a compatibility call.
C18_OnlyThePredictionLogGrows ==
    /\ applications = RestStore
    /\ dogs = RestDogs
    /\ Len(predictions_log) <= 1
    /\ predictions_log # <<>> =>
        /\ pred.classifier.kind = "row"
        /\ predictions_log[1] =
             [predicted_outcome |-> MlResult(pred.classifier).predicted_outcome,
              confidence |-> MlResult(pred.classifier).confidence]

C18_Witness ==
    /\ pred.pc = "done"
    /\ pred.result.source = "BigQuery ML"
    /\ Len(predictions_log) = 1
    /\ predictions_log[1].predicted_outcome = "returned"

(***************************************************************************)
(* Absent fields and the housing scenario                                  *)
(***************************************************************************)
Reported(app, dog, d) == RoundScore(DimensionScores(app, dog, calc.es)[d])

\* C19: when an optional field holds no value, the rule that reads it is
\* skipped and adds neither bonus nor penalty: without a landlord
\* permission the housing score is the one without the landlord rule,
\* without a surrender reason the experience score is the one without the
\* surrender rule, without allergy details the household score is the one
\* without the allergy rule.
C19_AbsentFieldSkipsItsRule ==
    calc.pc = "done" =>
        LET app == calc.app
            dog == calc.dog
            scores == calc.result.dimension_scores
        IN  /\ app.housing_info.landlord_permission_granted = None =>
                scores.housing =
                    Reported([app EXCEPT !.housing_info.ownership_status = "Owned"],
                             dog, "housing")
            /\ app.pet_experience.surrender_reason = 0 =>
                scores.experience =
                    Reported([app EXCEPT !.pet_experience.ever_surrendered_pet = FALSE],
                             dog, "experience")
            /\ app.household_info.allergy_details = 0 =>
                scores.household =
                    Reported([app EXCEPT !.household_info.has_allergies = FALSE],
                             dog, "household")

HousingScenario ==
    /\ calc.pc = "done"
    /\ calc.dog.weight_kg = 35
    /\ ~HighEnergy(calc.dog)
    /\ calc.app.housing_info.type = "Apartment"
    /\ calc.app.housing_info.ownership_status = "Leased"
    /\ calc.app.housing_info.landlord_permission_granted = "No"
    /\ calc.app.housing_info.size_sqm = 0

\* C20: for a 35 kg dog and an Apartment applicant with a Leased tenancy
\* and landlord permission "No" the housing score is 20 (70 - 10 - 40) and
\* the recommendation is reject with the CRITICAL concern.
C20_HousingScenarioScores20 ==
    HousingScenario =>
        /\ calc.result.dimension_scores.housing = 20 * 100
        /\ HasCritical(calc.result.concerns)
        /\ calc.result.recommendation = "reject"

\* C20, amended: in that scenario the housing score is 30 (70 - 40): the
\* apartment penalty needs a dog of more than 35 kg. 30 is below 50, so the
\* CRITICAL concern is present and the recommendation is reject.
C20_HousingScenarioScores30 ==
    HousingScenario =>
        /\ calc.result.dimension_scores.housing = 30 * 100
        /\ HasCritical(calc.result.concerns)
        /\ calc.result.recommendation = "reject"

C20_Witness ==
    /\ HousingScenario
    /\ calc.result.dimension_scores.experience = 100 * 100
    /\ calc.result.dimension_scores.household = 100 * 100
    /\ calc.result.overall_score >= 50 * 100

(***************************************************************************)
(* The experience score                                                    *)
(***************************************************************************)
\* C21: the experience score is 50, +20 with current or past pets and +10
\* more only then when history details are present, +15 with volunteer
\* text, -10 for a surrender with a reason or -20 for one without, and +15
\* for an introduction plan of more than 200 characters, +5 for one of more
\* than 50, clamped to [0,100]; prior pets with history, volunteer text, no
\* surrender and no plan give 95.
C21_ExperienceFormula ==
    calc.pc = "done" =>
        LET pe == calc.app.pet_experience
            sum == 50
                   + (IF pe.has_current_or_past_pets THEN 20 ELSE 0)
                   + (IF pe.has_current_or_past_pets /\ pe.pet_history_details > 0
                      THEN 10 ELSE 0)
                   + (IF pe.volunteer_experience_details > 0 THEN 15 ELSE 0)
                   - (IF pe.ever_surrendered_pet /\ pe.surrender_reason > 0
                      THEN 10 ELSE 0)
                   - (IF pe.ever_surrendered_pet /\ pe.surrender_reason = 0
                      THEN 20 ELSE 0)
                   + (IF pe.new_pet_introduction_plan > 200 THEN 15 ELSE 0)
                   + (IF pe.new_pet_introduction_plan > 50
                         /\ pe.new_pet_introduction_plan <= 200 THEN 5 ELSE 0)
            clamped == IF sum > 100 THEN 100 ELSE IF sum < 0 THEN 0 ELSE sum
        IN  /\ calc.result.dimension_scores.experience = clamped * 100
            /\ (/\ pe.has_current_or_past_pets
                /\ pe.pet_history_details > 0
                /\ pe.volunteer_experience_details > 0
                /\ ~pe.ever_surrendered_pet
                /\ pe.new_pet_introduction_plan = 0)
               => calc.result.dimension_scores.experience = 95 * 100

C21_Witness ==
    /\ calc.pc = "done"
    /\ calc.app.pet_experience.has_current_or_past_pets
    /\ calc.app.pet_experience.pet_history_details > 0
    /\ calc.app.pet_experience.volunteer_experience_details > 0
    /\ ~calc.app.pet_experience.ever_surrendered_pet
    /\ calc.app.pet_experience.new_pet_introduction_plan = 0
    /\ calc.result.dimension_scores.experience = 95 * 100

(***************************************************************************)
(* The motivation score                                                    *)
(***************************************************************************)
\* C22: the motivation score is min(100, max(0, score / 2 * 100)) of the
\* raw score of the application's hit (reported to 2 decimals, the raw
\* score counted in 1/10000); when the search raises or has no hit it is 50,
\* and calculate_compatibility returns a result for the pair all the same.
C22_MotivationScore ==
    calc.pc = "done" =>
        LET es == calc.es
            motivation == calc.result.dimension_scores.motivation
        IN  /\ es.kind \in {"error", "empty"} => motivation = 50 * 100
            /\ (es.kind = "hit" /\ es.score >= 20000) => motivation = 100 * 100
            /\ (es.kind = "hit" /\ es.score < 20000) =>
                /\ 2 * motivation - es.score <= 1
                /\ es.score - 2 * motivation <= 1
            /\ calc.result.application_id = calc.application_id
            /\ calc.result.dog_id = calc.dog_id
            /\ calc.result.recommendation \in {"approve", "review", "reject"}

C22_Witness ==
    /\ calc.pc = "done"
    /\ calc.es.kind = "error"
    /\ calc.result.dimension_scores.motivation = 50 * 100
    /\ calc.result.recommendation = "approve"

(***************************************************************************)
(* The agreement text of the household                                     *)
(***************************************************************************)
\* C23: an all-members-agree text that contains "disagree" lowers the
\* household score by 40 against the same application without the text,
\* and a text that contains "yes" or "agree" and neither "no" nor
\* "disagree" raises it by 20 (up to the clamp at 100).
C23_DisagreeLowersHousehold ==
    calc.pc = "done" =>
        LET text == Lower(calc.app.household_info.all_members_agree)
            without == Reported([calc.app EXCEPT
                                   !.household_info.all_members_agree = <<>>],
                                calc.dog, "household")
            household == calc.result.dimension_scores.household
        IN  /\ Contains(text, W_disagree) => household = without - 40 * 100
            /\ (/\ Contains(text, W_yes) \/ Contains(text, W_agree)
                /\ ~Contains(text, W_no)
                /\ ~Contains(text, W_disagree))
               => household = Min(100 * 100, without + 20 * 100)

(***************************************************************************)
(* The list of concerns                                                    *)
(***************************************************************************)
ConcernOrder ==
    <<"Limited pet ownership experience",
      "Housing may not be suitable",
      CriticalConcern,
      "Household compatibility concerns",
      "Household member has allergies",
      "Lifestyle may not align with pet needs",
      "Application essays don't strongly align with this dog's profile",
      "Previous pet surrender without explanation">>

Position(c) == CHOOSE k \in 1..Len(ConcernOrder) : ConcernOrder[k] = c

Raised(concerns, k) == \E i \in 1..Len(concerns) : concerns[i] = ConcernOrder[k]

InOrder(concerns) ==
    \A i \in 1..Len(concerns), j \in 1..Len(concerns) :
        i < j => Position(concerns[i]) < Position(concerns[j])

\* The concerns of the scores, without the CRITICAL one
ScoreConcernsRaised(concerns, scores, app) ==
    /\ Raised(concerns, 1) <=> scores.experience < 40 * ScoreScale
    /\ Raised(concerns, 2) <=> scores.housing < 50 * ScoreScale
    /\ Raised(concerns, 4) <=> scores.household < 50 * ScoreScale
    /\ Raised(concerns, 5) <=> (scores.household < 50 * ScoreScale
                                /\ app.household_info.has_allergies)
    /\ Raised(concerns, 6) <=> scores.lifestyle < 50 * ScoreScale
    /\ Raised(concerns, 7) <=> scores.motivation < 50 * ScoreScale
    /\ Raised(concerns, 8) <=> (app.pet_experience.ever_surrendered_pet
                                /\ app.pet_experience.surrender_reason = 0)

\* C24: the concerns list holds, in the fixed order, exactly the experience
\* concern iff experience < 40, the housing concern iff housing < 50, the
\* household concern iff household < 50 followed by the allergy concern iff
\* the allergy flag is set too, the lifestyle concern iff lifestyle < 50,
\* the motivation concern iff motivation < 50 and the unexplained-surrender
\* concern iff a pet was surrendered without a reason; nothing else.
C24_ConcernsExactlyTheSeven ==
    rec.pc = "done" =>
        LET concerns == rec.result.concerns
        IN  /\ \A i \in 1..Len(concerns) :
                \E k \in {1, 2, 4, 5, 6, 7, 8} : concerns[i] = ConcernOrder[k]
            /\ InOrder(concerns)
            /\ ScoreConcernsRaised(concerns, rec.dimension_scores, rec.app)

\* C24, amended: as above, and between the housing concern and the
\* household concern the list holds the CRITICAL concern iff housing < 50,
\* the tenancy is Leased or Rented and the landlord permission is not "Yes".
C24_ConcernsInOrder ==
    rec.pc = "done" =>
        LET concerns == rec.result.concerns
        IN  /\ \A i \in 1..Len(concerns) :
                \E k \in 1..Len(ConcernOrder) : concerns[i] = ConcernOrder[k]
            /\ InOrder(concerns)
            /\ ScoreConcernsRaised(concerns, rec.dimension_scores, rec.app)
            /\ Raised(concerns, 3) <=>
                 (/\ rec.dimension_scores.housing < 50 * ScoreScale
                  /\ rec.app.housing_info.ownership_status \in {"Leased", "Rented"}
                  /\ rec.app.housing_info.landlord_permission_granted # "Yes")

C24_Witness ==
    /\ rec.pc = "done"
    /\ rec.dimension_scores.experience = 40 * ScoreScale
    /\ rec.dimension_scores.housing < 50 * ScoreScale
    /\ rec.dimension_scores.household < 50 * ScoreScale
    /\ rec.dimension_scores.motivation = 50 * ScoreScale
    /\ Len(rec.result.concerns) = 6
    /\ rec.result.concerns[2] = CriticalConcern
    /\ rec.result.concerns[6] = ConcernOrder[8]

(***************************************************************************)
(* Ranking and the records it reads                                        *)
(***************************************************************************)
\* C25: a ranking call for a dog without a record does not return a
\* ranking: whenever rank_applications_for_dog returns, the dog exists.
C25_MissingDogFailsTheRanking ==
    rank.pc = "done" => rank.dog_id \in DOMAIN dogs

\* The entry's result is the one of its own snapshot and of the dog d
ScoredFrom(entry, d) ==
    \E es \in EsReps :
        entry.compatibility =
            CompatibilityResult(entry.application.id, rank.dog_id,
                                entry.application.app_data, d, es, weights)

\* C28: in every returned entry the compatibility result was computed from
\* the application contents returned in that entry, and all entries of the
\* ranking were computed from one and the same dog profile, also when the
\* stores are written to while the call runs.
C28_EntriesShareOneSnapshot ==
    rank.pc = "done" =>
        \E d \in DogReps :
            \A k \in 1..Len(rank.returned) : ScoredFrom(rank.returned[k], d)

(***************************************************************************)
(* Renters without a stated landlord permission                            *)
(***************************************************************************)
\* C26: for a Leased or Rented tenancy whose landlord permission is missing
\* or Not_Applicable the result holds no CRITICAL concern, so the applicant
\* is not rejected by the CRITICAL rule.
C26_UnstatedPermissionNotCritical ==
    (/\ calc.pc = "done"
     /\ calc.app.housing_info.ownership_status \in {"Leased", "Rented"}
     /\ calc.app.housing_info.landlord_permission_granted \in {None, "Not_Applicable"})
    => ~HasCritical(calc.result.concerns)

(***************************************************************************)
(* The recommendation against the reported overall_score                   *)
(***************************************************************************)
\* C27: the recommendation of a result agrees with the decision rule applied
\* to the overall_score the result reports (rounded to 2 decimals): with a
\* reported overall_score >= 80.00, at most one concern and no CRITICAL
\* concern it is approve, and with a reported overall_score >= 50.00 and no
\* CRITICAL concern it is not reject.
C27_DecisionAgreesWithReportedScore ==
    calc.pc = "done" =>
        LET result == calc.result
        IN  /\ (/\ result.overall_score >= 80 * 100
                /\ Len(result.concerns) <= 1
                /\ ~HasCritical(result.concerns))
               => result.recommendation = "approve"
            /\ (/\ result.overall_score >= 50 * 100
                /\ ~HasCritical(result.concerns))
               => result.recommendation # "reject"

(***************************************************************************)
(* The limit of a ranking and the lifestyle score                          *)
(***************************************************************************)
\* C29: for every integer limit, 0 and negative ones included, a ranking
\* call returns at most max(limit, 0) entries.
C29_AtMostLimitEntries ==
    rank.pc = "done" => Len(rank.returned) <= Max(rank.limit, 0)

\* C30: the lifestyle score of every result is at least 70, so no result
\* holds the concern "Lifestyle may not align with pet needs".
C30_LifestyleAtLeast70 ==
    calc.pc = "done" =>
        /\ calc.result.dimension_scores.lifestyle >= 70 * 100
        /\ \A i \in 1..Len(calc.result.concerns) :
            calc.result.concerns[i] # "Lifestyle may not align with pet needs"

C30_Witness ==
    /\ calc.pc = "done"
    /\ calc.app.application_meta.type = None
    /\ ~calc.app.application_meta.is_kara_donor
    /\ calc.app.applicant_info.marital_status = "Single"
    /\ calc.result.dimension_scores.lifestyle = 70 * 100
    /\ Len(calc.result.concerns) >= 2

====
